---- MODULE Spec2Model ----
(***************************************************************************)
(* A model of encode.py: Encoder (directory scan, sample filter, move,     *)
(* delete) and Handbrake (output path computation, blocking call of the    *)
(* external encoder).  Paths are strings; the path functions of os.path    *)
(* and str.replace are computed character by character as CPython's        *)
(* posixpath/genericpath do.  Exception classes are those of Python 3       *)
(* (IOError and shutil.Error are OSError).                                  *)
(***************************************************************************)
EXTENDS Integers, Sequences, FiniteSets, TLC

VARIABLES
    input_dir,            \* Encoder.input_dir
    destination_dir,      \* Encoder.destination_dir
    working_dir,          \* Encoder.working_dir
    delete_source_file,   \* Encoder.delete_source_file
    fs,                   \* the regular files: absolute path -> content
    dirs,                 \* the directories that exist
    tree0,                \* fs as it was when the run started
    media_files,          \* the list media_files() returned
    idx,                  \* position of the for loop in media_files
    pc,                   \* where encode_media_files is
    hb,                   \* the Handbrake object of the current file
    output_file,          \* the local output_file of encode_media_files
    procs,                \* the external encoder processes that are running
    last_move,            \* the last move_file call: argument, result, cause
    log                   \* every call made so far, in order

vars == <<input_dir, destination_dir, working_dir, delete_source_file, fs,
          dirs, tree0, media_files, idx, pc, hb, output_file, procs,
          last_move, log>>

----------------------------------------------------------------------------
(* Strings *)

Char(s, i) == SubSeq(s, i, i)

UpperCase == "ABCDEFGHIJKLMNOPQRSTUVWXYZ"

LowerCase == "abcdefghijklmnopqrstuvwxyz"

LowerChar(c) ==
    IF \E i \in 1..26 : Char(UpperCase, i) = c
    THEN Char(LowerCase, CHOOSE i \in 1..26 : Char(UpperCase, i) = c)
    ELSE c

RECURSIVE ToLower(_)
ToLower(s) ==
    IF s = "" THEN ""
    ELSE LowerChar(Char(s, 1)) \o ToLower(SubSeq(s, 2, Len(s)))

Contains(s, sub) ==
    \E i \in 1..(Len(s) + 1) :
        /\ i + Len(sub) - 1 <= Len(s)
        /\ SubSeq(s, i, i + Len(sub) - 1) = sub

StartsWith(s, pre) == Len(pre) <= Len(s) /\ SubSeq(s, 1, Len(pre)) = pre

EndsWith(s, suf) ==
    Len(suf) <= Len(s) /\ SubSeq(s, Len(s) - Len(suf) + 1, Len(s)) = suf

\* str.rfind for a one-character needle, 1-based; 0 stands for Python's -1
RFind(s, c) ==
    IF \E i \in 1..Len(s) : Char(s, i) = c
    THEN CHOOSE i \in 1..Len(s) :
            /\ Char(s, i) = c
            /\ \A j \in (i + 1)..Len(s) : Char(s, j) # c
    ELSE 0

\* str.replace(old, new): every non-overlapping occurrence, left to right
RECURSIVE ReplaceEmpty(_, _)
ReplaceEmpty(s, new) ==
    IF s = "" THEN new
    ELSE new \o Char(s, 1) \o ReplaceEmpty(SubSeq(s, 2, Len(s)), new)

RECURSIVE ReplaceFrom(_, _, _)
ReplaceFrom(s, old, new) ==
    IF Len(s) < Len(old) THEN s
    ELSE IF StartsWith(s, old)
         THEN new \o ReplaceFrom(SubSeq(s, Len(old) + 1, Len(s)), old, new)
         ELSE Char(s, 1) \o ReplaceFrom(SubSeq(s, 2, Len(s)), old, new)

Replace(s, old, new) ==
    IF old = "" THEN ReplaceEmpty(s, new) ELSE ReplaceFrom(s, old, new)

----------------------------------------------------------------------------
(* os.path *)

basename(p) == SubSeq(p, RFind(p, "/") + 1, Len(p))

RECURSIVE RStripSlash(_)
RStripSlash(s) ==
    IF s # "" /\ EndsWith(s, "/") THEN RStripSlash(SubSeq(s, 1, Len(s) - 1))
    ELSE s

dirname(p) ==
    LET head == SubSeq(p, 1, RFind(p, "/"))
    IN  IF head # "" /\ RStripSlash(head) # "" THEN RStripSlash(head) ELSE head

\* genericpath._splitext: <<root, ext>>; leading dots of the name are no extension
splitext(p) ==
    LET sepIndex == RFind(p, "/")
        dotIndex == RFind(p, ".")
    IN  IF /\ dotIndex > sepIndex
           /\ \E k \in (sepIndex + 1)..(dotIndex - 1) : Char(p, k) # "."
        THEN <<SubSeq(p, 1, dotIndex - 1), SubSeq(p, dotIndex, Len(p))>>
        ELSE <<p, "">>

join(a, b) ==
    IF StartsWith(b, "/") THEN b
    ELSE IF a = "" \/ EndsWith(a, "/") THEN a \o b
    ELSE a \o "/" \o b

\* str.split('/')
RECURSIVE SplitSlash(_)
SplitSlash(s) ==
    IF ~Contains(s, "/") THEN <<s>>
    ELSE LET i == CHOOSE k \in 1..Len(s) :
                    Char(s, k) = "/" /\ \A j \in 1..(k - 1) : Char(s, j) # "/"
         IN  <<SubSeq(s, 1, i - 1)>> \o SplitSlash(SubSeq(s, i + 1, Len(s)))

RECURSIVE NormComps(_, _, _)
NormComps(comps, new_comps, initial_slashes) ==
    IF comps = <<>> THEN new_comps
    ELSE LET comp == Head(comps)
             n    == Len(new_comps)
         IN  IF comp = "" \/ comp = "." THEN
                 NormComps(Tail(comps), new_comps, initial_slashes)
             ELSE IF \/ comp # ".."
                     \/ (initial_slashes = 0 /\ n = 0)
                     \/ (n > 0 /\ new_comps[n] = "..")
             THEN NormComps(Tail(comps), Append(new_comps, comp), initial_slashes)
             ELSE IF n > 0
             THEN NormComps(Tail(comps), SubSeq(new_comps, 1, n - 1), initial_slashes)
             ELSE NormComps(Tail(comps), new_comps, initial_slashes)

RECURSIVE JoinSlash(_)
JoinSlash(comps) ==
    IF comps = <<>> THEN ""
    ELSE IF Len(comps) = 1 THEN comps[1]
    ELSE comps[1] \o "/" \o JoinSlash(Tail(comps))

normpath(path) ==
    IF path = "" THEN "."
    ELSE LET initial_slashes ==
                 IF ~StartsWith(path, "/") THEN 0
                 ELSE IF StartsWith(path, "//") /\ ~StartsWith(path, "///") THEN 2
                 ELSE 1
             body == JoinSlash(NormComps(SplitSlash(path), <<>>, initial_slashes))
             res  == (IF initial_slashes = 2 THEN "//"
                      ELSE IF initial_slashes = 1 THEN "/" ELSE "") \o body
         IN  IF res = "" THEN "." ELSE res

\* the process's current directory (os.getcwd)
Cwd == "/"

abspath(path) ==
    normpath(IF StartsWith(path, "/") THEN path ELSE join(Cwd, path))

----------------------------------------------------------------------------
(* The inputs *)

MaxFiles == 2

NoFile == "<absent>"

Universe ==
    { "/in/a.mkv", "/in/sub/a.avi", "/in/a.avi.avi", "/in/a.avi.mkv",
      "/in/Samples/a.m4v", "/in/b_SAMPLE.ts", "/in/a.MKV",
      "/tmp/a.m4v", "/out/a.m4v" }

InputDirs == { "/in", "in", "/tmp" }

DestinationDirs == { "/out", "/in/Samples" }

WorkingDirs == { "/tmp", "/work" }

RECURSIVE Ancestors(_)
Ancestors(d) == IF d = "/" \/ d = "" THEN {"/"} ELSE {d} \cup Ancestors(dirname(d))

SourceContent(p) == "src:" \o p

EncodedContent(media_file) == "enc:" \o media_file

----------------------------------------------------------------------------
(* Encoder and Handbrake *)

valid_extensions == { ".mkv", ".mp4", ".m4v", ".avi", ".wmv", ".ts" }

handbrake_cli == "/usr/bin/HandBrakeCLI"

\* os.path.exists: the kernel resolves a relative path from the current directory
exists(p) == abspath(p) \in DOMAIN fs \/ abspath(p) \in dirs

\* the search without re.IGNORECASE
sample_file_case_sensitive(filename) == Contains(filename, "sample")

\* Encoder.sample_file: re.search(r'sample', filename, re.IGNORECASE)
sample_file(filename) == Contains(ToLower(filename), "sample")

\* the test of media_files on one file name
is_media(filename) == splitext(filename)[2] \in valid_extensions

\* whether directory d (absolute) is top or lies under it
InTree(top, d) ==
    LET t == abspath(top)
    IN  d = t \/ StartsWith(d, IF t = "/" THEN "/" ELSE t \o "/")

\* the root os.walk(top) reports for directory d: top joined with d's path below top
WalkRoot(top, d) ==
    LET t == abspath(top)
    IN  IF d = t THEN top
        ELSE join(top, SubSeq(d, Len(t) + (IF t = "/" THEN 1 ELSE 2), Len(d)))

\* the paths media_files() collects from the files f
FoundIn(f, top) ==
    { abspath(join(WalkRoot(top, dirname(p)), basename(p))) :
        p \in { q \in DOMAIN f : InTree(top, dirname(q)) /\ is_media(basename(q)) } }

Found(top) == FoundIn(fs, top)

\* os.walk is top-down: a directory's own files come before those of the
\* directories below it, and each subtree is listed without interruption;
\* the order inside one listing is the file system's
WalkOrder(s) ==
    /\ \A i, j \in DOMAIN s : i # j => s[i] # s[j]
    /\ \A i, j \in DOMAIN s :
          (dirname(s[j]) # dirname(s[i]) /\ InTree(dirname(s[j]), dirname(s[i])))
              => j < i
    /\ \A d \in dirs : \A i, j, k \in DOMAIN s :
          (i < j /\ j < k /\ InTree(d, dirname(s[i])) /\ InTree(d, dirname(s[k])))
              => InTree(d, dirname(s[j]))

\* Encoder.media_files: every list it can return
media_files_results(top) ==
    LET found == Found(top)
        n     == Cardinality(found)
    IN  { s \in [1..n -> found] : WalkOrder(s) }

\* Handbrake.__init__ as encode_media_files calls it: working_dir is not passed
Handbrake(media_file, exe) ==
    [media_file |-> media_file, working_dir |-> "/tmp", executable |-> exe]

\* the output_file Handbrake.encode computes
encode_output(h) ==
    join(h.working_dir,
         Replace(basename(h.media_file), splitext(h.media_file)[2], ".m4v"))

\* the except clauses: which exception each one catches
makedirs_except(exc) == exc = "OSError"

\* a handler that lets the error of shutil.move through
move_except_none(exc) == FALSE

move_except(exc) == exc = "OSError"

\* a handler that lets the error of os.remove through
remove_except_none(exc) == FALSE

remove_except(exc) == exc = "OSError"

Event(op, media, path, ret) == [op |-> op, media |-> media, path |-> path, ret |-> ret]

WriteFile(f, p, content) ==
    [q \in DOMAIN f \cup {p} |-> IF q = p THEN content ELSE f[q]]

RemoveFile(f, p) == [q \in DOMAIN f \ {p} |-> f[q]]

\* what the system calls of one move_file call do: os.makedirs, shutil.move
MoveEnvs ==
    [makedirs : {"ok", "OSError"}, move : {"ok", "OSError", "OSError after copy"}]

\* shutil.move(src, dst): rename, or copy then unlink across devices
shutil_move(f, src, dst, how) ==
    IF how = "ok" THEN
        IF src = dst THEN f ELSE WriteFile(RemoveFile(f, src), dst, f[src])
    ELSE IF how = "OSError after copy" THEN WriteFile(f, dst, f[src])
    ELSE f

\* Encoder.move_file(filename): the result, the files and directories after it
move_file(filename, env) ==
    LET must_create == ~exists(destination_dir)
        created     == must_create /\ env.makedirs = "ok"
        dirs1       == IF created THEN dirs \cup Ancestors(abspath(destination_dir))
                       ELSE dirs
        src         == abspath(filename)
        destination_file == join(destination_dir, basename(filename))
    IN  IF must_create /\ env.makedirs # "ok" THEN
            [ret |-> FALSE, raised |-> ~makedirs_except(env.makedirs),
             cause |-> "makedirs", fs |-> fs, dirs |-> dirs, dst |-> ""]
        ELSE IF exists(filename) THEN
            [ret |-> env.move = "ok",
             raised |-> env.move # "ok" /\ ~move_except("OSError"),
             cause |-> IF env.move = "ok" THEN "" ELSE "move",
             fs |-> shutil_move(fs, src, abspath(destination_file), env.move),
             dirs |-> dirs1, dst |-> destination_file]
        ELSE
            [ret |-> FALSE, raised |-> FALSE, cause |-> "missing",
             fs |-> fs, dirs |-> dirs1, dst |-> ""]

\* Encoder.delete_file(filename): how is what os.remove does
delete_file(filename, how) ==
    IF exists(filename) THEN
        IF how = "ok" THEN
            [ret |-> TRUE, raised |-> FALSE, fs |-> RemoveFile(fs, abspath(filename))]
        ELSE
            [ret |-> FALSE, raised |-> ~remove_except(how), fs |-> fs]
    ELSE [ret |-> FALSE, raised |-> FALSE, fs |-> fs]

NoMove == [filename |-> "", ret |-> FALSE, cause |-> "", pre |-> NoFile, dst |-> ""]

NoHandbrake == [media_file |-> "", working_dir |-> "", executable |-> ""]

----------------------------------------------------------------------------
(* The run *)

Init ==
    /\ input_dir \in InputDirs
    /\ destination_dir \in DestinationDirs
    /\ working_dir \in WorkingDirs
    /\ delete_source_file \in BOOLEAN
    /\ \E F \in SUBSET Universe :
          /\ Cardinality(F) <= MaxFiles
          /\ fs = [p \in F |-> SourceContent(p)]
          /\ LET base == {"/", "/tmp"} \cup UNION { Ancestors(dirname(p)) : p \in F }
             IN  dirs \in { base, base \cup Ancestors(destination_dir) }
    /\ tree0 = fs
    /\ media_files = <<>>
    /\ idx = 0
    /\ pc = "start"
    /\ hb = NoHandbrake
    /\ output_file = ""
    /\ procs = {}
    /\ last_move = NoMove
    /\ log = <<>>

\* encode_media_files, line 59: self.media_files() returns the whole list
Discover ==
    /\ pc = "start"
    /\ media_files' \in media_files_results(input_dir)
    /\ idx' = 1
    /\ pc' = "loop"
    /\ log' = Append(log, Event("media_files", "", "", TRUE))
    /\ UNCHANGED <<input_dir, destination_dir, working_dir, delete_source_file,
                   fs, dirs, tree0, hb, output_file, procs, last_move>>

\* the loop with an encode() that starts the process and does not wait for it
LoopNextNoWait ==
    /\ pc = "loop"
    /\ IF idx > Len(media_files) THEN
           /\ pc' = "done"
           /\ UNCHANGED <<idx, hb, procs, log, output_file>>
       ELSE IF sample_file(media_files[idx]) THEN
           /\ idx' = idx + 1
           /\ UNCHANGED <<pc, hb, procs, log, output_file>>
       ELSE
           \E h \in {Handbrake(media_files[idx], handbrake_cli)} :
           \E out \in {encode_output(h)} :
               /\ hb' = h
               /\ procs' = procs \cup {[input |-> h.media_file, output |-> out]}
               /\ log' = Append(log, Event("encode", h.media_file, out, TRUE))
               /\ output_file' = out
               /\ pc' = "move"
               /\ UNCHANGED idx
    /\ UNCHANGED <<input_dir, destination_dir, working_dir, delete_source_file,
                   fs, dirs, tree0, media_files, last_move>>

\* lines 59-62 and 158-168: the next file; a sample is skipped, any other gets a
\* Handbrake whose encode() starts the external process and blocks on it
LoopNext ==
    /\ pc = "loop"
    /\ IF idx > Len(media_files) THEN
           /\ pc' = "done"
           /\ UNCHANGED <<idx, hb, procs, log>>
       ELSE IF sample_file(media_files[idx]) THEN
           /\ idx' = idx + 1
           /\ UNCHANGED <<pc, hb, procs, log>>
       ELSE
           \E h \in {Handbrake(media_files[idx], handbrake_cli)} :
           \E out \in {encode_output(h)} :
               /\ hb' = h
               /\ procs' = procs \cup {[input |-> h.media_file, output |-> out]}
               /\ log' = Append(log, Event("encode", h.media_file, out, TRUE))
               /\ pc' = "wait"
               /\ UNCHANGED idx
    /\ UNCHANGED <<input_dir, destination_dir, working_dir, delete_source_file,
                   fs, dirs, tree0, media_files, output_file, last_move>>

\* lines 168-170 and 62: the external process ends, having written its output
\* file or not; its exit status is not looked at; encode() returns output_file
ProcessExit ==
    /\ \E p \in procs : \E produced \in BOOLEAN :
          /\ procs' = procs \ {p}
          /\ fs' = IF produced
                   THEN WriteFile(fs, abspath(p.output), EncodedContent(p.input))
                   ELSE fs
          /\ IF pc = "wait" /\ p.input = hb.media_file
             THEN /\ pc' = "move"
                  /\ output_file' = p.output
                  /\ log' = Append(log, Event("encoded", p.input, p.output, TRUE))
             ELSE UNCHANGED <<pc, output_file, log>>
    /\ UNCHANGED <<input_dir, destination_dir, working_dir, delete_source_file,
                   dirs, tree0, media_files, idx, hb, last_move>>

\* a loop that calls move_file only when the output file is there
MoveFileIfPresent ==
    /\ pc = "move"
    /\ IF exists(output_file) THEN
           \E env \in MoveEnvs :
              \E r \in {move_file(output_file, env)} :
                  /\ fs' = r.fs
                  /\ dirs' = r.dirs
                  /\ last_move' = [filename |-> output_file, ret |-> r.ret,
                                   cause |-> r.cause, dst |-> r.dst,
                                   pre |-> fs[abspath(output_file)]]
                  /\ log' = Append(log, Event("move", hb.media_file, output_file, r.ret))
                  /\ pc' = IF r.raised THEN "aborted" ELSE "delete"
       ELSE
           /\ pc' = "delete"
           /\ UNCHANGED <<fs, dirs, last_move, log>>
    /\ UNCHANGED <<input_dir, destination_dir, working_dir, delete_source_file,
                   tree0, media_files, idx, hb, output_file, procs>>

\* line 63: self.move_file(output_file); its result is not used
MoveFile ==
    /\ pc = "move"
    /\ \E env \in MoveEnvs :
          \E r \in {move_file(output_file, env)} :
              /\ fs' = r.fs
              /\ dirs' = r.dirs
              /\ last_move' = [filename |-> output_file, ret |-> r.ret,
                               cause |-> r.cause, dst |-> r.dst,
                               pre |-> IF abspath(output_file) \in DOMAIN fs
                                       THEN fs[abspath(output_file)] ELSE NoFile]
              /\ log' = Append(log, Event("move", hb.media_file, output_file, r.ret))
              /\ pc' = IF r.raised THEN "aborted" ELSE "delete"
    /\ UNCHANGED <<input_dir, destination_dir, working_dir, delete_source_file,
                   tree0, media_files, idx, hb, output_file, procs>>

\* lines 64-65: delete the source when the option is set; then the next file
MaybeDelete ==
    /\ pc = "delete"
    /\ IF delete_source_file THEN
           \E how \in {"ok", "OSError"} :
              \E r \in {delete_file(media_files[idx], how)} :
                  /\ fs' = r.fs
                  /\ log' = Append(log, Event("delete", media_files[idx],
                                              media_files[idx], r.ret))
                  /\ pc' = IF r.raised THEN "aborted" ELSE "loop"
                  /\ idx' = IF r.raised THEN idx ELSE idx + 1
       ELSE
           /\ idx' = idx + 1
           /\ pc' = "loop"
           /\ UNCHANGED <<fs, log>>
    /\ UNCHANGED <<input_dir, destination_dir, working_dir, delete_source_file,
                   dirs, tree0, media_files, hb, output_file, procs, last_move>>

Next == Discover \/ LoopNext \/ ProcessExit \/ MoveFile \/ MaybeDelete

Spec == Init /\ [][Next]_vars

----------------------------------------------------------------------------
(* What the claims speak of *)

Calls(op) == { i \in DOMAIN log : log[i].op = op }

CallsFor(op, media) == { i \in Calls(op) : log[i].media = media }

\* the letters s-a-m-p-l-e in a row, each in either case
HasSampleAnyCase(p) ==
    \E i \in 1..(Len(p) - 5) : \A k \in 1..6 :
        Char(p, i + k - 1) \in { Char("sample", k), Char("SAMPLE", k) }

\* the media files that were under the input directory when the run started
InitialMedia == FoundIn(tree0, input_dir)

\* the files media_files() returned
Discovered == { media_files[k] : k \in DOMAIN media_files }

Stem(p) == splitext(basename(p))[1]

Position(media) == CHOOSE k \in DOMAIN media_files : media_files[k] = media

Rank(op) ==
    CASE op = "encode" -> 1 [] op = "encoded" -> 2 [] op = "move" -> 3
      [] op = "delete" -> 4 [] OTHER -> 0

----------------------------------------------------------------------------
(* The claims *)

\* C1: a source file is deleted only when delete_source_file is set and the
\* move of its output returned True; at the end of the run the source of every
\* job whose move failed is still where it was.
C1_DeleteOnlyAfterSuccessfulMove ==
    /\ \A i \in { k \in Calls("delete") : log[k].ret } :
          /\ delete_source_file
          /\ \E j \in CallsFor("move", log[i].media) : j < i /\ log[j].ret
    /\ pc = "done" =>
          \A j \in Calls("move") : ~log[j].ret => log[j].media \in DOMAIN fs

\* C2: the output path encode() computes lies directly under the working
\* directory the Encoder was given.
C2_OutputUnderWorkingDir ==
    \A i \in Calls("encode") : dirname(log[i].path) = working_dir

\* C3: the file name of the output path is the source's base name with its
\* last extension, and nothing else, replaced by .m4v.
C3_OutputNameReplacesLastExtension ==
    \A i \in Calls("encode") :
        basename(log[i].path) = Stem(log[i].media) \o ".m4v"

\* C4: no failure of encode, move or delete ends the run: it never stops on an
\* exception, every file the loop has passed that is no sample got its encode
\* and its move, and so has every such file when the run is over.
C4_FailureDoesNotAbortRun ==
    /\ pc # "aborted"
    /\ \A k \in DOMAIN media_files :
          (~HasSampleAnyCase(media_files[k]) /\ (k < idx \/ pc = "done")) =>
              /\ CallsFor("encode", media_files[k]) # {}
              /\ CallsFor("move", media_files[k]) # {}

C4_Witness ==
    /\ pc = "done"
    /\ \E i, j \in Calls("move") : \E d \in Calls("delete") :
          /\ i < d /\ d < j
          /\ ~log[i].ret /\ ~log[d].ret
          /\ log[i].media # log[j].media
          /\ log[j].ret

\* C5: every file media_files() returned whose path holds no "sample" gets
\* one encode and one move_file call in a run, never two, whether the encoder
\* wrote its output or not.
C5_ExactlyOneEncodeAndMove ==
    \A p \in { q \in Discovered : ~HasSampleAnyCase(q) } :
        /\ Cardinality(CallsFor("encode", p)) <= 1
        /\ Cardinality(CallsFor("move", p)) <= 1
        /\ pc = "done" =>
              /\ Cardinality(CallsFor("encode", p)) = 1
              /\ Cardinality(CallsFor("move", p)) = 1

C5_Witness ==
    /\ pc = "done"
    /\ \E p \in Discovered : \E q \in Discovered :
          /\ p # q
          /\ ~HasSampleAnyCase(p) /\ ~HasSampleAnyCase(q)
          /\ \E i \in CallsFor("move", p) : ~log[i].ret /\ ~exists(log[i].path)
          /\ \E i \in CallsFor("move", q) : log[i].ret

\* C6 as stated: a discovered file whose path holds "sample" in any case is
\* never encoded, moved or deleted, and stays in place with its content.
C6_SampleUnchanged ==
    \A p \in { q \in Discovered : HasSampleAnyCase(q) } :
        /\ \A i \in DOMAIN log : log[i].media # p /\ log[i].path # p
        /\ p \in DOMAIN fs
        /\ fs[p] = tree0[p]

\* C6 as amended: such a file is never encoded, moved or deleted and is never
\* removed; its content changes only when it lies directly in the destination
\* directory and the output of another job, of the same name, was moved there.
C6_SampleNeverProcessed ==
    \A p \in { q \in Discovered : HasSampleAnyCase(q) } :
        /\ \A i \in DOMAIN log : log[i].media # p /\ log[i].path # p
        /\ p \in DOMAIN fs
        /\ fs[p] # tree0[p] =>
              /\ dirname(p) = abspath(destination_dir)
              /\ \E i \in Calls("move") :
                    abspath(join(destination_dir, basename(log[i].path))) = p

C6_Witness ==
    /\ pc = "done"
    /\ \E p \in Discovered : \E q \in Discovered :
          /\ HasSampleAnyCase(dirname(p)) /\ ~HasSampleAnyCase(basename(p))
          /\ ~HasSampleAnyCase(q)
          /\ Position(p) < Position(q)
          /\ \E i \in CallsFor("move", q) : log[i].ret
          /\ \E i \in CallsFor("delete", q) : log[i].ret

\* C7: when move_file has returned: False in each failure case with the file
\* at the given path exactly as it was, True only with the file now in the
\* destination directory and gone from where it was; it never raises.
C7_MoveResult ==
    /\ pc # "aborted"
    /\ pc = "delete" =>
          LET src == abspath(last_move.filename)
              dst == abspath(last_move.dst)
          IN  /\ last_move.cause \in {"makedirs", "missing", "move"} => ~last_move.ret
              /\ ~last_move.ret =>
                    IF last_move.pre = NoFile THEN src \notin DOMAIN fs
                    ELSE src \in DOMAIN fs /\ fs[src] = last_move.pre
              /\ last_move.ret =>
                    /\ last_move.cause = ""
                    /\ last_move.pre # NoFile
                    /\ dirname(dst) = abspath(destination_dir)
                    /\ dst \in DOMAIN fs /\ fs[dst] = last_move.pre
                    /\ dst # src => src \notin DOMAIN fs

C7_Witness ==
    /\ pc = "delete"
    /\ last_move.cause = "move"
    /\ ~last_move.ret
    /\ last_move.pre # NoFile
    /\ abspath(last_move.dst) \in DOMAIN fs

\* C8: with delete_source_file off, delete_file is never called and every
\* discovered file is at its path when the run is over.
C8_SourcesKeptWithoutDelete ==
    ~delete_source_file =>
        /\ Calls("delete") = {}
        /\ pc = "done" => \A p \in Discovered : p \in DOMAIN fs

\* C9: media_files() is called first and once, and the list it has returned
\* before the first encode is the complete one; the calls follow the
\* order of the list, and for one file the order encode, move, delete, each
\* once; an encoder process exists only while encode() waits for it, so there
\* is never more than one.
C9_StrictlySequential ==
    /\ Cardinality(procs) <= 1
    /\ procs # {} => pc = "wait"
    /\ pc = "start" => log = <<>>
    /\ pc # "start" => log[1].op = "media_files"
    /\ Len(log) = 1 => Discovered = InitialMedia
    /\ \A i \in 2..Len(log) :
          /\ Rank(log[i].op) > 0
          /\ log[i].media \in Discovered
          /\ \A j \in (i + 1)..Len(log) :
                \/ Position(log[i].media) < Position(log[j].media)
                \/ /\ log[i].media = log[j].media
                   /\ Rank(log[i].op) < Rank(log[j].op)

C9_Witness ==
    /\ pc = "done"
    /\ Cardinality(Calls("encode")) = 2
    /\ Cardinality(Calls("delete")) = 2

\* C10: two discovered files with the same stem get the same output path and
\* the same destination file.
C10_SameStemSameOutput ==
    \A i, j \in Calls("encode") :
        Stem(log[i].media) = Stem(log[j].media) =>
            /\ log[i].path = log[j].path
            /\ join(destination_dir, basename(log[i].path))
                 = join(destination_dir, basename(log[j].path))

====
